---- MODULE Spec2Model ----
(***************************************************************************)
(* Mars-Mars-RL: the lander simulation in its two hosts, the headless      *)
(* trainer (mars_env.py, MarsGym) and the interactive game (main.py, Game  *)
(* with entities.py Player / PlatformManager and camera.py Camera).        *)
(*                                                                         *)
(* The program computes on floats; the model computes on integers in      *)
(* fixed-point units chosen so that every product with a time step the    *)
(* program can use is exact:                                              *)
(*   time      1/3000 s   (the trainer's 1/60 s is 50, one millisecond 3)  *)
(*   velocity  1/30 px/s  (force * dt is then force * dt / 100)            *)
(*   position  1/90000 px (velocity * dt needs no division)                *)
(*   fuel      1/60 unit  (FUEL_DRAIN_RATE * dt is then dt)                *)
(*   phase     1/4500 rad (dt * speed / range is then dt * speed / 100)    *)
(*   reward    1/100                                                       *)
(* Only the drag product, sin/cos, the camera's lerp and the Euclidean     *)
(* distance round.                                                         *)
(***************************************************************************)
EXTENDS Integers, Sequences, FiniteSets, TLC

\* ------------------------------------------------------------ settings.py
SCREEN_WIDTH == 1280
SCREEN_HEIGHT == 720
GRAVITY == 800
\* DRAG = 0.98, in hundredths
DRAG == 98
TERMINAL_VELOCITY == 600
THRUST_POWER == 1400
THRUST_HORIZONTAL == 700
PLAYER_WIDTH == 40
PLAYER_HEIGHT == 50
MAX_FUEL == 100
FUEL_DRAIN_RATE == 50
MAX_LANDING_SPEED_Y == 220
MAX_LANDING_SPEED_X == 180
PLATFORM_WIDTH == 100
PLATFORM_HEIGHT == 20
PLATFORM_MIN_DISTANCE_X == 300
PLATFORM_MAX_DISTANCE_X == 600
PLATFORM_MIN_DISTANCE_Y == -150
PLATFORM_MAX_DISTANCE_Y == 100
GROUND_LEVEL == SCREEN_HEIGHT - 100
WIND_ENABLED == TRUE
WIND_CHANGE_INTERVAL == 100
MAX_WIND_FORCE == 300
MOVING_PLATFORMS_ENABLED == TRUE
PLATFORM_MOVE_SPEED == 100
PLATFORM_MOVE_RANGE == 150
CAMERA_LOOK_AHEAD_X == 200
\* CAMERA_SMOOTH = 0.08, in hundredths
CAMERA_SMOOTH == 8
STATE_START == "start"
STATE_PLAYING == "playing"
STATE_LANDED == "landed"
STATE_CRASHED == "crashed"
\* the rewards, in hundredths
REWARD_LANDING == 10000
REWARD_CRASH_GROUND == -10000
REWARD_CRASH_PLATFORM == -3000
REWARD_FUEL_PENALTY == -5
REWARD_TIME_PENALTY == -1

\* ------------------------------------------------------------------ units
TimeScale == 3 * 1000
VelScale == TimeScale \div 100
PosScale == VelScale * TimeScale
FuelScale == TimeScale \div FUEL_DRAIN_RATE
PhaseScale == VelScale * PLATFORM_MOVE_RANGE
RewardScale == 10 * 10
\* the trainer's fixed step, dt = 1.0 / 60.0
DT == 50
\* one millisecond of the interactive host's clock
MS == TimeScale \div 1000

Px(n) == n * PosScale
Vel(n) == n * VelScale
MaxFuelUnits == MAX_FUEL * FuelScale

\* ------------------------------------------------------------------- math
Abs(a) == IF a < 0 THEN -a ELSE a
Min(a, b) == IF a < b THEN a ELSE b
Max(a, b) == IF a > b THEN a ELSE b
\* a float product rounds the same way for either sign: division toward zero
TruncDiv(a, b) == IF a >= 0 THEN a \div b ELSE -((-a) \div b)

\* pi and 2 pi in phase units
PI == (314159 * PhaseScale) \div 100000
TWO_PI == 2 * PI

\* math.sin, times 1000: Bhaskara's rational approximation on [0, pi], odd
\* and periodic beyond; exact at 0, pi/2 and pi, and never beyond +-1000
Sin1000(phase) ==
    LET p == phase % TWO_PI
        neg == p > PI
        x == IF neg THEN p - PI ELSE p
        num == 16 * x * (PI - x)
        den == 5 * PI * PI - 4 * x * (PI - x)
        s == Min(num \div (den \div 1000), 1000)
    IN  IF neg THEN -s ELSE s

\* math.cos, times 1000
Cos1000(phase) == Sin1000(phase + PI \div 2)

RECURSIVE SqrtSearch(_, _, _)
SqrtSearch(n, lo, hi) ==
    IF lo >= hi THEN lo
    ELSE LET mid == (lo + hi + 1) \div 2
         IN  IF mid * mid <= n THEN SqrtSearch(n, mid, hi)
             ELSE SqrtSearch(n, lo, mid - 1)

\* math.sqrt, rounded down
Sqrt(n) == SqrtSearch(n, 0, 40000)

\* Vector2.length() of a difference of positions, in whole pixels
Length(dx, dy) ==
    LET px == TruncDiv(dx, PosScale)
        py == TruncDiv(dy, PosScale)
    IN  Sqrt(px * px + py * py)

\* ----------------------------------------------------------------- bounds
\* platforms generated after the first one (the code's range(10), scaled down)
NUM_GENERATED == 2
\* the short step budget a caller may construct the trainer with
ShortBudget == 15
\* steps of one episode the model follows
StepCap == 125
\* steps of an episode the model follows when the caller flies the whole course
LongCap == 255
\* resets the caller makes
MaxResets == 2
\* steps a caller still makes after a step has reported the episode over
MaxOverrun == 1
\* length, in held actions, of the caller's freely chosen opening
PlanLen == 1
\* steps each action of the opening is held
HoldSteps == 8
\* frames in a row the pilot lets pass outside flight
MaxIdle == 1
\* retries (R) the pilot makes after a crash
MaxRetries == 1

Actions == 0..3
NoIndex == 0 - 1
NoSeed == "None"
Seeds == {NoSeed, "seed"}

\* --------------------------------------------------------------- variables
VARIABLES
    host,                      \* "trainer" (MarsGym) or "interactive" (Game)
    \* MarsGym
    max_steps, player_pos, player_vel, fuel, is_grounded,
    wind_force, wind_timer, platforms,
    current_platform_idx, target_platform_idx,
    steps, prev_distance, total_time,
    platform_landing_counts, last_landed_platform_idx,
    np_random,                 \* gym.Env's own generator: the seed it was given
    ret,                       \* what the last reset / step computed and returned
    raised,                    \* the last call did not return: an exception, or
                               \* a loop that cannot end
    \* Game
    state, score, current_platform_index, player, platform_manager, camera,
    pressed,                   \* pygame.key.get_pressed(): the arrows held down
    frame,                     \* what the last pass of Game.run computed
    \* the caller of MarsGym, the pilot and clock of Game
    policy, cap, overrun, resets, tick, frames, idle,
    \* history, for the claims
    landings, landings_before, seeded_layout,
    coast                      \* the steps in a row the vehicle has flown with no
                               \* thrust, wind or landing, and its vx before them

envVars == <<max_steps, player_pos, player_vel, fuel, is_grounded, wind_force,
             wind_timer, platforms, current_platform_idx, target_platform_idx,
             steps, prev_distance, total_time, platform_landing_counts,
             last_landed_platform_idx, np_random, ret>>
gameVars == <<state, score, current_platform_index, player, platform_manager,
              camera, pressed, frame>>
callerVars == <<policy, cap, overrun, resets, tick, frames, idle>>
historyVars == <<landings, landings_before, seeded_layout, coast>>
vars == <<host, raised, envVars, gameVars, callerVars, historyVars>>

Vec(x, y) == [x |-> x, y |-> y]

\* --------------------------------------------------- MarsGym: the platforms
Platform(x, y, move_speed, move_phase) ==
    [x |-> x, y |-> y, width |-> PLATFORM_WIDTH, height |-> PLATFORM_HEIGHT,
     initial_x |-> x, move_speed |-> move_speed, move_phase |-> move_phase]

\* one platform's draws from the global numpy generator: the two distances
\* (np.random.randint(low, high) excludes high), whether it moves and which
\* way, and its phase in [0, 2 pi)
DrawChoices ==
    { [distance_x |-> PLATFORM_MIN_DISTANCE_X, distance_y |-> PLATFORM_MIN_DISTANCE_Y,
       move_speed |-> PLATFORM_MOVE_SPEED, move_phase |-> (3 * PI) \div 2],
      [distance_x |-> PLATFORM_MAX_DISTANCE_X - 1, distance_y |-> PLATFORM_MAX_DISTANCE_Y - 1,
       move_speed |-> 0, move_phase |-> 0] }

\* NextX measured from the last platform's left edge, its width forgotten
NextXFromLeftEdge(last, distance_x) == last.initial_x + Px(distance_x)

NextX(last, distance_x) == last.initial_x + Px(last.width) + Px(distance_x)

NextPlatform(last, d) ==
    Platform(NextX(last, d.distance_x),
             Max(Px(200), Min(Px(GROUND_LEVEL), last.y + Px(d.distance_y))),
             d.move_speed, d.move_phase)

RECURSIVE Generate(_, _)
Generate(ps, draws) ==
    IF draws = << >> THEN ps
    ELSE Generate(Append(ps, NextPlatform(ps[Len(ps)], Head(draws))), Tail(draws))

_spawn_platforms(draws) ==
    Generate(<<Platform(Px(SCREEN_WIDTH) \div 2 - Px(PLATFORM_WIDTH) \div 2,
                        Px(GROUND_LEVEL), 0, 0)>>, draws)

PhaseStep(p, dt) ==
    TruncDiv(dt * p.move_speed * PhaseScale, TimeScale * PLATFORM_MOVE_RANGE)

\* Oscillate with the offset added to the current x, not to initial_x
OscillateDrift(p, dt) ==
    LET phase == p.move_phase + PhaseStep(p, dt)
        offset == Sin1000(phase) * (Px(PLATFORM_MOVE_RANGE) \div 1000)
    IN  [p EXCEPT !.move_phase = phase, !.x = p.x + offset]

Oscillate(p, dt) ==
    LET phase == p.move_phase + PhaseStep(p, dt)
        offset == Sin1000(phase) * (Px(PLATFORM_MOVE_RANGE) \div 1000)
    IN  [p EXCEPT !.move_phase = phase, !.x = p.initial_x + offset]

_update_platforms(ps, dt) ==
    IF ~MOVING_PLATFORMS_ENABLED THEN ps
    ELSE [i \in 1..Len(ps) |->
            IF ps[i].move_speed # 0 THEN Oscillate(ps[i], dt) ELSE ps[i]]

\* the caller guards against the empty list: platforms[-1] of one raises
_get_target_platform(ps, target_idx) ==
    IF target_idx < Len(ps) THEN ps[target_idx + 1] ELSE ps[Len(ps)]

PlatformVelocity(p) == (Vel(p.move_speed) * Cos1000(p.move_phase)) \div 1000

_get_target_velocity(ps, target_idx) ==
    LET target == _get_target_platform(ps, target_idx)
    IN  IF target.move_speed = 0 THEN 0 ELSE PlatformVelocity(target)

CenterX(p) == p.x + Px(p.width) \div 2

_get_distance_to_target(pos, ps, target_idx) ==
    LET target == _get_target_platform(ps, target_idx)
    IN  Length(pos.x - CenterX(target), pos.y - target.y)

\* ------------------------------------------------- MarsGym: the vehicle
\* force * dt, in velocity units
Impulse(force, dt) == TruncDiv(force * dt * VelScale, TimeScale)

\* FUEL_DRAIN_RATE * dt, in fuel units
Drain(dt) == (FUEL_DRAIN_RATE * dt * FuelScale) \div TimeScale

ThrustForce(action) ==
    CASE action = 1 -> Vec(-THRUST_HORIZONTAL, -THRUST_POWER)
      [] action = 2 -> Vec(THRUST_HORIZONTAL, -THRUST_POWER)
      [] action = 3 -> Vec(0, -((THRUST_POWER * 3) \div 2))
      [] OTHER -> Vec(0, 0)

\* what a float subtraction leaves where the exact one leaves nothing: less
\* than any amount of fuel the units can measure
FuelResidue == 1

\* fuel -= FUEL_DRAIN_RATE * dt; fuel = max(0, fuel). The trainer's dt = 1/60
\* is no binary fraction: in doubles the 120th burn of a full tank leaves
\* 1.3e-13, not 0, and the 121st burn is the one that empties it
BurnFuel(f, dt) ==
    IF f - Drain(dt) = 0 /\ dt = DT THEN FuelResidue ELSE Max(0, f - Drain(dt))

\* _apply_action that fires on the ground too
_apply_action_on_ground(vel, f, grounded, action, dt) ==
    IF f <= 0 \/ action \notin {1, 2, 3}
    THEN [vel |-> vel, fuel |-> f, thrust_applied |-> FALSE]
    ELSE [vel |-> Vec(vel.x + Impulse(ThrustForce(action).x, dt),
                      vel.y + Impulse(ThrustForce(action).y, dt)),
          fuel |-> BurnFuel(f, dt), thrust_applied |-> TRUE]

\* _apply_action that fires only on fuel enough for the whole step
_apply_action_full_burn(vel, f, grounded, action, dt) ==
    IF f < Drain(dt) \/ grounded \/ action \notin {1, 2, 3}
    THEN [vel |-> vel, fuel |-> f, thrust_applied |-> FALSE]
    ELSE [vel |-> Vec(vel.x + Impulse(ThrustForce(action).x, dt),
                      vel.y + Impulse(ThrustForce(action).y, dt)),
          fuel |-> BurnFuel(f, dt), thrust_applied |-> TRUE]

_apply_action(vel, f, grounded, action, dt) ==
    IF f <= 0 \/ grounded \/ action \notin {1, 2, 3}
    THEN [vel |-> vel, fuel |-> f, thrust_applied |-> FALSE]
    ELSE [vel |-> Vec(vel.x + Impulse(ThrustForce(action).x, dt),
                      vel.y + Impulse(ThrustForce(action).y, dt)),
          fuel |-> BurnFuel(f, dt), thrust_applied |-> TRUE]

\* ApplyDrag that leaves the velocity alone
ApplyDragNone(vx) == vx

ApplyDrag(vx) == TruncDiv(vx * DRAG, 100)

\* _update_physics without gravity
_update_physics_weightless(pos, vel, grounded, wind, dt) ==
    LET vx1 == ApplyDrag(vel.x)
        vx2 == IF WIND_ENABLED /\ ~grounded THEN vx1 + Impulse(wind, dt) ELSE vx1
    IN  [vel |-> Vec(vx2, vel.y), pos |-> Vec(pos.x + vx2 * dt, pos.y + vel.y * dt)]

_update_physics(pos, vel, grounded, wind, dt) ==
    LET vy1 == vel.y + Impulse(GRAVITY, dt)
        vx1 == ApplyDrag(vel.x)
        vx2 == IF WIND_ENABLED /\ ~grounded THEN vx1 + Impulse(wind, dt) ELSE vx1
        vy2 == IF vy1 > Vel(TERMINAL_VELOCITY) THEN Vel(TERMINAL_VELOCITY) ELSE vy1
    IN  [vel |-> Vec(vx2, vy2), pos |-> Vec(pos.x + vx2 * dt, pos.y + vy2 * dt)]

\* ----------------------------------------------- MarsGym: the classifier
PlayerRect(pos) ==
    [left |-> pos.x - Px(PLAYER_WIDTH) \div 2, right |-> pos.x + Px(PLAYER_WIDTH) \div 2,
     top |-> pos.y - Px(PLAYER_HEIGHT), bottom |-> pos.y]

PlatRect(p) ==
    [left |-> p.x, right |-> p.x + Px(p.width), top |-> p.y, bottom |-> p.y + Px(p.height)]

RectsOverlap(a, b) ==
    a.right > b.left /\ a.left < b.right /\ a.bottom > b.top /\ a.top < b.bottom

FromTop(pos, p) ==
    LET overlap == PlayerRect(pos).bottom - PlatRect(p).top
    IN  /\ 0 < overlap
        /\ 2 * overlap < Px(PLAYER_HEIGHT)
        /\ PlatRect(p).left <= pos.x
        /\ pos.x <= PlatRect(p).right

\* SafeSpeed with the vertical bound forgotten
SafeSpeedXOnly(vel) == Abs(vel.x) <= Vel(MAX_LANDING_SPEED_X)

SafeSpeed(vel) ==
    Abs(vel.y) <= Vel(MAX_LANDING_SPEED_Y) /\ Abs(vel.x) <= Vel(MAX_LANDING_SPEED_X)

\* FirstHit that takes the last platform the vehicle overlaps
FirstHitLast(pos, ps) ==
    LET hits == {i \in 1..Len(ps) : RectsOverlap(PlayerRect(pos), PlatRect(ps[i]))}
    IN  IF hits = {} THEN NoIndex
        ELSE (CHOOSE i \in hits : \A j \in hits : i >= j) - 1

\* the list index (from 0) of the first platform the vehicle overlaps
FirstHit(pos, ps) ==
    LET hits == {i \in 1..Len(ps) : RectsOverlap(PlayerRect(pos), PlatRect(ps[i]))}
    IN  IF hits = {} THEN NoIndex
        ELSE (CHOOSE i \in hits : \A j \in hits : i <= j) - 1

_check_collisions(pos, vel, ps) ==
    LET i == FirstHit(pos, ps)
    IN  IF i # NoIndex
        THEN IF FromTop(pos, ps[i + 1]) /\ SafeSpeed(vel)
             THEN [landed |-> TRUE, crashed |-> FALSE, idx |-> i]
             ELSE [landed |-> FALSE, crashed |-> TRUE, idx |-> i]
        ELSE IF pos.y > Px(GROUND_LEVEL + 200)
             THEN [landed |-> FALSE, crashed |-> TRUE, idx |-> NoIndex]
             ELSE [landed |-> FALSE, crashed |-> FALSE, idx |-> NoIndex]

\* the velocity a safe landing leaves the vehicle with
LandingVelocity(p) ==
    IF MOVING_PLATFORMS_ENABLED /\ p.move_speed # 0
    THEN Vec(PlatformVelocity(p), 0) ELSE Vec(0, 0)

\* Refuel that leaves the tank as it is
RefuelNone(f) == f

Refuel(f) == MaxFuelUnits

\* ------------------------------------------------------ MarsGym: a step
DEFAULT_MAX_STEPS == 1000

\* np.random.uniform(-MAX_WIND_FORCE, MAX_WIND_FORCE)
WindChoices == {-MAX_WIND_FORCE, 0, MAX_WIND_FORCE}

NoReturn ==
    [call |-> "init", seed |-> NoSeed, action |-> 0, thrust_applied |-> FALSE,
     landed |-> FALSE, crashed |-> FALSE, terminated |-> FALSE, truncated |-> FALSE,
     oob |-> FALSE, hit_idx |-> NoIndex, hit_pos |-> Vec(0, 0), hit_vel |-> Vec(0, 0),
     target_idx |-> 0, landing_speed2 |-> 0,
     pos_before |-> Vec(0, 0), vel_before |-> Vec(0, 0), fuel_before |-> 0,
     grounded_before |-> FALSE,
     act_vel |-> Vec(0, 0), act_fuel |-> 0, wind |-> 0, terminated_before |-> FALSE,
     r_time |-> 0, r_fuel |-> 0, r_shaping |-> 0, r_pipe |-> 0, r_crash |-> 0,
     r_landing |-> 0, r_soft |-> 0, r_repeat |-> 0, r_complete |-> 0, r_oob |-> 0]

\* the scalar reward a step returns
Reward(r) ==
    r.r_time + r.r_fuel + r.r_shaping + r.r_pipe + r.r_crash + r.r_landing
    + r.r_soft + r.r_repeat + r.r_complete + r.r_oob

Speed2(vel) == vel.x * vel.x + vel.y * vel.y

\* step 6, the "in the pipe" bonus
PipeBonus(pos, vel, target) ==
    IF target.x < pos.x /\ pos.x < target.x + Px(target.width)
    THEN 10
         + (IF vel.y > 0 THEN 5 ELSE 0)
         + (IF pos.y > target.y - Px(100) /\ Speed2(vel) < Vel(50) * Vel(50)
            THEN 10 ELSE 0)
    ELSE 0

\* CrashPenalty with no smaller penalty
CrashPenaltyGround(pos, target) == REWARD_CRASH_GROUND

\* step 7, the penalty of a crash
CrashPenalty(pos, target) ==
    IF target.x < pos.x /\ pos.x < target.x + Px(target.width)
    THEN IF Abs(pos.y - target.y) < Px(20)
         THEN REWARD_CRASH_PLATFORM ELSE REWARD_CRASH_GROUND
    ELSE REWARD_CRASH_GROUND

CountOf(counts, i) == IF i \in DOMAIN counts THEN counts[i] ELSE 0

\* Counted without the running count: every landing sets the entry to 1
CountedOnce(counts, i) ==
    [j \in DOMAIN counts \cup {i} |-> IF j = i THEN 1 ELSE counts[j]]

Counted(counts, i) ==
    [j \in DOMAIN counts \cup {i} |-> IF j = i THEN CountOf(counts, i) + 1 ELSE counts[j]]

\* RepeatPenalty that does not grow
RepeatPenaltyFlat(n) == IF n > 2 THEN -(50 * RewardScale) ELSE 0

RepeatPenalty(n) == IF n > 2 THEN -(50 * RewardScale * (n - 1)) ELSE 0

OutOfBounds(pos, target_center_x) ==
    pos.y < -Px(1000) \/ Abs(pos.x - target_center_x) > Px(2000)

\* Truncated one step late
TruncatedLate(n, budget, oob) == oob \/ n > budget

Truncated(n, budget, oob) == oob \/ n >= budget

\* MarsGym.step(action) on a reset environment, with w the wind in force after
\* _update_wind, in the order of the code. Steps 1 and 3: the platforms move
\* and the actuator fires
Actuated(action) ==
    [action |-> action,
     ps |-> _update_platforms(platforms, DT),
     act |-> _apply_action(player_vel, fuel, is_grounded, action, DT)]

\* steps 4 and 5: the integrator, and the target the rewards are measured to
Integrated(s, w) ==
    [action |-> s.action, ps |-> s.ps, act |-> s.act, wind |-> w,
     phys |-> _update_physics(player_pos, s.act.vel, is_grounded, w, DT),
     target |-> _get_target_platform(s.ps, target_platform_idx)]

\* step 7: the classifier
Classified(s) ==
    [action |-> s.action, ps |-> s.ps, act |-> s.act, wind |-> s.wind, phys |-> s.phys,
     target |-> s.target,
     current_distance |->
         Length(s.phys.pos.x - CenterX(s.target), s.phys.pos.y - s.target.y),
     col |-> _check_collisions(s.phys.pos, s.phys.vel, s.ps)]

\* Landed that advances the score and leaves the target index behind
LandedKeepsTarget(s) ==
    LET plat == s.ps[s.col.idx + 1]
        advance == s.col.idx > current_platform_idx
    IN  [pos |-> Vec(s.phys.pos.x, PlatRect(plat).top),
         vel |-> LandingVelocity(plat),
         fuel |-> Refuel(s.act.fuel),
         current_platform_idx |-> IF advance THEN s.col.idx ELSE current_platform_idx,
         target_platform_idx |-> target_platform_idx,
         last_landed_platform_idx |-> s.col.idx,
         platform_landing_counts |-> Counted(platform_landing_counts, s.col.idx)]

\* what a safe landing does to the vehicle and the progress indices
Landed(s) ==
    LET plat == s.ps[s.col.idx + 1]
        advance == s.col.idx > current_platform_idx
    IN  [pos |-> Vec(s.phys.pos.x, PlatRect(plat).top),
         vel |-> LandingVelocity(plat),
         fuel |-> Refuel(s.act.fuel),
         current_platform_idx |-> IF advance THEN s.col.idx ELSE current_platform_idx,
         target_platform_idx |-> IF advance THEN s.col.idx + 1 ELSE target_platform_idx,
         last_landed_platform_idx |-> s.col.idx,
         platform_landing_counts |-> Counted(platform_landing_counts, s.col.idx)]

NotLanded(s) ==
    [pos |-> s.phys.pos, vel |-> s.phys.vel, fuel |-> s.act.fuel,
     current_platform_idx |-> current_platform_idx,
     target_platform_idx |-> target_platform_idx,
     last_landed_platform_idx |-> last_landed_platform_idx,
     platform_landing_counts |-> platform_landing_counts]

Settled(s) ==
    [action |-> s.action, ps |-> s.ps, act |-> s.act, wind |-> s.wind, phys |-> s.phys,
     target |-> s.target, current_distance |-> s.current_distance, col |-> s.col,
     now |-> IF s.col.landed THEN Landed(s) ELSE NotLanded(s)]

\* Finished that never takes the course for complete
FinishedNever(s) ==
    [action |-> s.action, ps |-> s.ps, act |-> s.act, wind |-> s.wind, phys |-> s.phys,
     target |-> s.target, current_distance |-> s.current_distance, col |-> s.col,
     now |-> s.now,
     complete |-> FALSE,
     relaunch |-> s.col.landed,
     oob |-> OutOfBounds(s.now.pos, CenterX(s.target))]

\* Finished that takes the course for complete one platform early
FinishedEarly(s) ==
    [action |-> s.action, ps |-> s.ps, act |-> s.act, wind |-> s.wind, phys |-> s.phys,
     target |-> s.target, current_distance |-> s.current_distance, col |-> s.col,
     now |-> s.now,
     complete |-> s.col.landed /\ s.now.target_platform_idx >= Len(s.ps) - 1,
     relaunch |-> s.col.landed /\ s.now.target_platform_idx < Len(s.ps) - 1,
     oob |-> OutOfBounds(s.now.pos, CenterX(s.target))]

\* steps 7 and 8: completion or relaunch, the bounds check
Finished(s) ==
    [action |-> s.action, ps |-> s.ps, act |-> s.act, wind |-> s.wind, phys |-> s.phys,
     target |-> s.target, current_distance |-> s.current_distance, col |-> s.col,
     now |-> s.now,
     complete |-> s.col.landed /\ s.now.target_platform_idx >= Len(s.ps),
     relaunch |-> s.col.landed /\ s.now.target_platform_idx < Len(s.ps),
     oob |-> OutOfBounds(s.now.pos, CenterX(s.target))]

\* every attribute the step leaves and every value it returns
Outcome(s) ==
    [platforms |-> s.ps,
     player_pos |-> s.now.pos,
     player_vel |-> IF s.relaunch THEN Vec(s.now.vel.x, Vel(-50)) ELSE s.now.vel,
     fuel |-> s.now.fuel,
     is_grounded |-> IF s.col.landed THEN s.complete ELSE is_grounded,
     current_platform_idx |-> s.now.current_platform_idx,
     target_platform_idx |-> s.now.target_platform_idx,
     last_landed_platform_idx |-> s.now.last_landed_platform_idx,
     platform_landing_counts |-> s.now.platform_landing_counts,
     prev_distance |->
         IF s.relaunch
         THEN _get_distance_to_target(s.now.pos, s.ps, s.now.target_platform_idx)
         ELSE s.current_distance,
     ret |->
        [call |-> "step", seed |-> NoSeed, action |-> s.action, thrust_applied |-> s.act.thrust_applied,
         landed |-> s.col.landed, crashed |-> s.col.crashed,
         terminated |-> s.col.crashed \/ s.complete,
         truncated |-> Truncated(steps + 1, max_steps, s.oob),
         oob |-> s.oob, hit_idx |-> s.col.idx,
         hit_pos |-> s.phys.pos, hit_vel |-> s.phys.vel,
         target_idx |-> target_platform_idx,
         landing_speed2 |-> IF s.col.landed THEN Speed2(s.now.vel) ELSE 0,
         pos_before |-> player_pos, vel_before |-> player_vel, fuel_before |-> fuel,
         grounded_before |-> is_grounded, act_vel |-> s.act.vel,
         act_fuel |-> s.act.fuel, wind |-> s.wind,
         terminated_before |-> ret.terminated,
         r_time |-> REWARD_TIME_PENALTY,
         r_fuel |-> IF s.act.thrust_applied THEN REWARD_FUEL_PENALTY ELSE 0,
         r_shaping |-> (prev_distance - s.current_distance) * 5 * RewardScale,
         r_pipe |-> PipeBonus(s.phys.pos, s.phys.vel, s.target),
         r_crash |-> IF s.col.crashed THEN CrashPenalty(s.phys.pos, s.target) ELSE 0,
         r_landing |-> IF s.col.landed THEN REWARD_LANDING ELSE 0,
         r_soft |-> IF s.col.landed /\ Speed2(s.now.vel) < Vel(10) * Vel(10)
                    THEN 10 * RewardScale ELSE 0,
         r_repeat |-> IF s.col.landed
                      THEN RepeatPenalty(s.now.platform_landing_counts[s.col.idx])
                      ELSE 0,
         r_complete |-> IF s.complete THEN 200 * RewardScale ELSE 0,
         r_oob |-> IF s.oob THEN REWARD_CRASH_GROUND ELSE 0]]

Stepped(action, w) ==
    Outcome(Finished(Settled(Classified(Integrated(Actuated(action), w)))))

\* _update_wind's timer and whether it draws a new wind
\* WindTimer that is never set back to 0
WindTimerFree(t) == IF ~WIND_ENABLED THEN t ELSE t + 1

WindTimer(t) == IF ~WIND_ENABLED THEN t ELSE IF t + 1 >= WIND_CHANGE_INTERVAL THEN 0 ELSE t + 1
WindResampled(t) == WIND_ENABLED /\ t + 1 >= WIND_CHANGE_INTERVAL

\* ------------------------------------------------ Game: player and platforms
CAMERA_VERTICAL_OFFSET == -100
\* platforms spawn_initial_platform adds after the first
PRESPAWN == 3
\* Game.update keeps len(platforms) >= current_platform_index + 5
SPAWN_AHEAD == 5
\* Game.run caps dt at 0.05 s
MAX_FRAME_MS == 50

Player(x, y) ==
    [position |-> Vec(x, y), velocity |-> Vec(0, 0),
     width |-> PLAYER_WIDTH, height |-> PLAYER_HEIGHT,
     fuel |-> MaxFuelUnits, is_grounded |-> FALSE, is_thrusting |-> FALSE]

\* pygame.Rect, in whole pixels
Rect(left, top, width, height) ==
    [left |-> left, top |-> top, width |-> width, height |-> height,
     right |-> left + width, bottom |-> top + height, centerx |-> left + width \div 2]

\* pygame.Rect cuts a float argument to an int
ToInt(v) == TruncDiv(v, PosScale)

Player_rect(p) ==
    Rect(ToInt(p.position.x - Px(p.width) \div 2), ToInt(p.position.y - Px(p.height)),
         p.width, p.height)

GamePlatform(x, y, index) ==
    [x |-> x, y |-> y, width |-> PLATFORM_WIDTH, height |-> PLATFORM_HEIGHT,
     index |-> index]

NoPlatform == GamePlatform(0, 0, NoIndex)

Platform_rect(p) == Rect(ToInt(p.x), ToInt(p.y), p.width, p.height)

Direction(held) ==
    IF "K_LEFT" \in held /\ "K_RIGHT" \in held THEN "both"
    ELSE IF "K_LEFT" \in held THEN "left"
    ELSE IF "K_RIGHT" \in held THEN "right"
    ELSE "none"

\* apply_thrust without self.fuel = max(0, self.fuel)
apply_thrust_unclamped(p, direction, dt) ==
    IF p.fuel <= 0
    THEN [force |-> Vec(0, 0), fuel |-> p.fuel, is_thrusting |-> FALSE]
    ELSE [force |-> CASE direction = "left" -> Vec(-THRUST_HORIZONTAL, -THRUST_POWER)
                      [] direction = "right" -> Vec(THRUST_HORIZONTAL, -THRUST_POWER)
                      [] direction = "both" -> Vec(0, -((THRUST_POWER * 15) \div 10))
                      [] OTHER -> Vec(0, 0),
          fuel |-> p.fuel - Drain(dt),
          is_thrusting |-> TRUE]

\* Player.apply_thrust: the force it adds to the acceleration, the fuel it leaves
apply_thrust(p, direction, dt) ==
    IF p.fuel <= 0
    THEN [force |-> Vec(0, 0), fuel |-> p.fuel, is_thrusting |-> FALSE]
    ELSE [force |-> CASE direction = "left" -> Vec(-THRUST_HORIZONTAL, -THRUST_POWER)
                      [] direction = "right" -> Vec(THRUST_HORIZONTAL, -THRUST_POWER)
                      [] direction = "both" -> Vec(0, -((THRUST_POWER * 15) \div 10))
                      [] OTHER -> Vec(0, 0),
          fuel |-> Max(0, p.fuel - Drain(dt)),
          is_thrusting |-> TRUE]

Thrust(p, held, dt) ==
    IF ~p.is_grounded /\ Direction(held) # "none"
    THEN apply_thrust(p, Direction(held), dt)
    ELSE [force |-> Vec(0, 0), fuel |-> p.fuel, is_thrusting |-> FALSE]

\* Integrate with the drag taken before the acceleration is added
IntegrateDragFirst(p, thrust, dt) ==
    LET vx == TruncDiv(p.velocity.x * DRAG, 100) + Impulse(thrust.force.x, dt)
        vy == Min(p.velocity.y + Impulse(GRAVITY + thrust.force.y, dt),
                  Vel(TERMINAL_VELOCITY))
    IN  [p EXCEPT !.velocity = Vec(vx, vy),
                  !.position = Vec(p.position.x + vx * dt, p.position.y + vy * dt),
                  !.fuel = thrust.fuel,
                  !.is_thrusting = thrust.is_thrusting]

\* Player.update from the thrust on: velocity += acceleration * dt, drag,
\* terminal velocity, position += velocity * dt
Integrate(p, thrust, dt) ==
    LET vx == TruncDiv((p.velocity.x + Impulse(thrust.force.x, dt)) * DRAG, 100)
        vy == Min(p.velocity.y + Impulse(GRAVITY + thrust.force.y, dt),
                  Vel(TERMINAL_VELOCITY))
    IN  [p EXCEPT !.velocity = Vec(vx, vy),
                  !.position = Vec(p.position.x + vx * dt, p.position.y + vy * dt),
                  !.fuel = thrust.fuel,
                  !.is_thrusting = thrust.is_thrusting]

Player_update(p, held, dt) == Integrate(p, Thrust(p, held, dt), dt)

land(p, platform_y) ==
    [p EXCEPT !.position = Vec(p.position.x, platform_y), !.velocity = Vec(0, 0),
              !.is_grounded = TRUE, !.fuel = MaxFuelUnits]

\* launch that leaves the vehicle grounded
launch_grounded(p) == p

launch(p) == [p EXCEPT !.is_grounded = FALSE]

check_landing_safe(p) ==
    /\ Abs(p.velocity.y) <= Vel(MAX_LANDING_SPEED_Y)
    /\ Abs(p.velocity.x) <= Vel(MAX_LANDING_SPEED_X)

\* colliderect that takes touching edges for a collision
colliderect_touching(a, b) ==
    a.left <= b.right /\ a.right >= b.left /\ a.top <= b.bottom /\ a.bottom >= b.top

\* pygame's colliderect: rectangles that only touch do not collide
colliderect(a, b) ==
    a.left < b.right /\ a.right > b.left /\ a.top < b.bottom /\ a.bottom > b.top

check_collision(player_rect, platform_rect) ==
    LET colliding == colliderect(player_rect, platform_rect)
        overlap == player_rect.bottom - platform_rect.top
    IN  [colliding |-> colliding,
         overlap |-> IF colliding THEN overlap ELSE 0,
         from_top |-> /\ colliding
                      /\ overlap > 0
                      /\ 2 * overlap < player_rect.height
                      /\ platform_rect.left <= player_rect.centerx
                      /\ player_rect.centerx <= platform_rect.right]

\* one platform's draws from the random module: random.randint(a, b) includes b
GameDrawChoices ==
    { [distance_x |-> PLATFORM_MIN_DISTANCE_X, distance_y |-> PLATFORM_MIN_DISTANCE_Y],
      [distance_x |-> PLATFORM_MAX_DISTANCE_X, distance_y |-> PLATFORM_MAX_DISTANCE_Y] }

spawn_next_platform(m, d) ==
    IF m.platforms = << >> THEN m
    ELSE LET last_platform == m.platforms[Len(m.platforms)]
         IN  [platforms |->
                 Append(m.platforms,
                        GamePlatform(last_platform.x + Px(last_platform.width)
                                        + Px(d.distance_x),
                                     Max(Px(200), Min(Px(GROUND_LEVEL),
                                                      last_platform.y + Px(d.distance_y))),
                                     m.next_index)),
              next_index |-> m.next_index + 1]

RECURSIVE SpawnAll(_, _)
SpawnAll(m, draws) ==
    IF draws = << >> THEN m
    ELSE SpawnAll(spawn_next_platform(m, Head(draws)), Tail(draws))

\* PlatformManager(): the first platform and the pre-spawned ones
spawn_initial_platform(draws) ==
    SpawnAll([platforms |-> <<GamePlatform(Px(SCREEN_WIDTH) \div 2 - Px(PLATFORM_WIDTH) \div 2,
                                           Px(GROUND_LEVEL), 0)>>,
              next_index |-> 1],
             draws)

Visible(p, camera_x) == p.x + Px(p.width) > camera_x - Px(SCREEN_WIDTH)

RECURSIVE Filter(_, _)
Filter(ps, camera_x) ==
    IF ps = << >> THEN << >>
    ELSE IF Visible(Head(ps), camera_x)
         THEN <<Head(ps)>> \o Filter(Tail(ps), camera_x)
         ELSE Filter(Tail(ps), camera_x)

cleanup_old_platforms(m, camera_x) ==
    [m EXCEPT !.platforms = Filter(m.platforms, camera_x)]

\* utils.lerp's step with CAMERA_SMOOTH
Lerp(d) == TruncDiv(d * 2, 200 \div CAMERA_SMOOTH)

Camera_update(cam, player_position) ==
    LET target == Vec(player_position.x - Px(SCREEN_WIDTH) \div 2 + Px(CAMERA_LOOK_AHEAD_X),
                      player_position.y - Px(SCREEN_HEIGHT) \div 2
                          + Px(CAMERA_VERTICAL_OFFSET))
    IN  [position |-> Vec(cam.position.x + Lerp(target.x - cam.position.x),
                          cam.position.y + Lerp(target.y - cam.position.y))]

\* ------------------------------------------------------------- Game: a frame
\* Game.reset_game, as the record of the attributes it assigns
reset_game(draws) ==
    LET manager == spawn_initial_platform(draws)
        start_platform == manager.platforms[1]
    IN  [state |-> STATE_START, score |-> 0, current_platform_index |-> 0,
         platform_manager |-> manager,
         camera |-> [position |-> Vec(0, 0)],
         player |-> [Player(start_platform.x + Px(start_platform.width) \div 2,
                            start_platform.y)
                     EXCEPT !.is_grounded = TRUE]]

Launched(g) == [g EXCEPT !.state = STATE_PLAYING, !.player = launch(g.player)]

\* the three tests handle_events makes on a KEYDOWN, in order
OnStart(g) == IF g.state = STATE_START THEN Launched(g) ELSE g

OnRetry(g, key, draws) ==
    IF g.state = STATE_CRASHED /\ key = "K_r" THEN Launched(reset_game(draws)) ELSE g

OnLaunch(g, key) ==
    IF g.state = STATE_LANDED /\ key \in {"K_LEFT", "K_RIGHT", "K_SPACE"}
    THEN Launched(g) ELSE g

KeyDown(g, key, draws) == OnLaunch(OnRetry(OnStart(g), key, draws), key)

\* Game.handle_events on the KEYDOWN events of one frame
RECURSIVE handle_events(_, _, _)
handle_events(g, keydowns, draws) ==
    IF keydowns = << >> THEN g
    ELSE handle_events(KeyDown(g, Head(keydowns), draws), Tail(keydowns), draws)

_land(g, platform) ==
    [g EXCEPT !.player = land(g.player, platform.y),
              !.state = STATE_LANDED,
              !.score = IF platform.index > g.current_platform_index
                        THEN g.score + platform.index - g.current_platform_index
                        ELSE g.score,
              !.current_platform_index = Max(platform.index, g.current_platform_index)]

_crash(g) == [g EXCEPT !.state = STATE_CRASHED]

\* the position in the list (from 1) of the first platform the player's
\* rectangle collides with, 0 if none
FirstColliding(player_rect, ps) ==
    LET hits == {i \in 1..Len(ps) :
                    check_collision(player_rect, Platform_rect(ps[i])).colliding}
    IN  IF hits = {} THEN 0 ELSE CHOOSE i \in hits : \A j \in hits : i <= j

NoFrame ==
    [call |-> "init", state |-> STATE_START, dt |-> 0, held |-> {},
     before |-> Player(0, 0), flown |-> Player(0, 0),
     rect |-> Player_rect(Player(0, 0)), platforms |-> << >>,
     hit |-> 0, platform |-> NoPlatform,
     from_top |-> FALSE, safe |-> FALSE, spawned |-> 0, culled |-> 0]

\* Game.update in the PLAYING state: Player.update, then what the collision
\* loop finds
Flown(g, held, dt) ==
    [g |-> [g EXCEPT !.player = Player_update(g.player, held, dt)],
     before |-> g.player, held |-> held, dt |-> dt]

Struck(s) ==
    [g |-> s.g, before |-> s.before, held |-> s.held, dt |-> s.dt,
     rect |-> Player_rect(s.g.player),
     hit |-> FirstColliding(Player_rect(s.g.player), s.g.platform_manager.platforms)]

Judged(s) ==
    [g |-> s.g, before |-> s.before, held |-> s.held, dt |-> s.dt,
     rect |-> s.rect, hit |-> s.hit,
     platform |-> IF s.hit = 0 THEN NoPlatform
                  ELSE s.g.platform_manager.platforms[s.hit],
     from_top |-> /\ s.hit # 0
                  /\ check_collision(
                        s.rect,
                        Platform_rect(s.g.platform_manager.platforms[s.hit])).from_top,
     safe |-> check_landing_safe(s.g.player)]

_check_platform_collisions(s) ==
    IF s.hit = 0 THEN s.g
    ELSE IF s.from_top
         THEN IF s.safe THEN _land(s.g, s.platform) ELSE _crash(s.g)
         ELSE _crash(s.g)

GroundChecked(g) ==
    IF g.player.position.y > Px(GROUND_LEVEL + 200) THEN _crash(g) ELSE g

Followed(g) == [g EXCEPT !.camera = Camera_update(g.camera, g.player.position)]

\* Game.update up to the camera, with what it saw on the way
Observed(s) ==
    [g |-> Followed(GroundChecked(_check_platform_collisions(s))),
     frame |-> [call |-> "update", state |-> STATE_PLAYING, dt |-> s.dt, held |-> s.held,
                before |-> s.before, flown |-> s.g.player, rect |-> s.rect,
                platforms |-> s.g.platform_manager.platforms, hit |-> s.hit, platform |-> s.platform, from_top |-> s.from_top,
                safe |-> s.safe, spawned |-> 0, culled |-> 0]]

\* Paused that still runs Player.update
PausedFalling(g, held, dt) ==
    [g |-> [g EXCEPT !.player = Player_update(g.player, held, dt)],
     frame |-> [NoFrame EXCEPT !.call = "update", !.state = g.state, !.dt = dt,
                               !.held = held, !.before = g.player, !.flown = g.player,
                               !.rect = Player_rect(g.player),
                               !.platforms = g.platform_manager.platforms]]

Paused(g, held, dt) ==
    [g |-> IF g.state = STATE_CRASHED THEN g ELSE Followed(g),
     frame |-> [NoFrame EXCEPT !.call = "update", !.state = g.state, !.dt = dt,
                               !.held = held, !.before = g.player, !.flown = g.player,
                               !.rect = Player_rect(g.player),
                               !.platforms = g.platform_manager.platforms]]

Played(g, held, dt) ==
    IF g.state = STATE_PLAYING THEN Observed(Judged(Struck(Flown(g, held, dt))))
    ELSE Paused(g, held, dt)

\* Needed with the loop stopping one platform short
NeededShort(g) ==
    Max(0, g.current_platform_index + SPAWN_AHEAD - 1 - Len(g.platform_manager.platforms))

\* passes of the while loop that keeps platforms ahead
Needed(g) ==
    Max(0, g.current_platform_index + SPAWN_AHEAD - Len(g.platform_manager.platforms))

Spawned(g, draws) == [g EXCEPT !.platform_manager = SpawnAll(@, draws)]

Cleaned(g) ==
    [g EXCEPT !.platform_manager = cleanup_old_platforms(@, g.camera.position.x)]

\* ------------------------------------------------- the caller and the pilot
\* an open-loop policy: segments [a |-> action, n |-> steps], then action 0
RECURSIVE PolicyAction(_, _)
PolicyAction(segs, n) ==
    IF segs = << >> THEN 0
    ELSE IF n <= Head(segs).n THEN Head(segs).a
    ELSE PolicyAction(Tail(segs), n - Head(segs).n)

Seg(a, n) == [a |-> a, n |-> n]

\* every opening of PlanLen actions, each held HoldSteps steps
HoldPlans ==
    {[i \in 1..PlanLen |-> Seg(f[i], HoldSteps)] : f \in [1..PlanLen -> Actions]}

\* hover until the fuel is gone
HoverPlan == <<Seg(3, StepCap)>>
\* push right until the fuel is gone
RightPlan == <<Seg(2, StepCap)>>
\* push right, then left against the motion
ZigZagPlan == <<Seg(2, HoldSteps), Seg(1, HoldSteps)>>
\* onto the first generated platform, too fast
FastPlan == <<Seg(0, 5), Seg(2, 40)>>
\* onto the first generated platform, then the second
FlightPlan ==
    <<Seg(2, 20), Seg(0, 20), Seg(2, 25), Seg(0, 30), Seg(2, 16), Seg(0, 8), Seg(2, 16),
      Seg(0, 16), Seg(2, 8), Seg(0, 16), Seg(2, 16), Seg(0, 8), Seg(2, 16), Seg(0, 24),
      Seg(1, 7)>>

\* back onto the start platform once, then the flight
RepeatPlan == <<Seg(0, 7)>> \o FlightPlan

\* over the first generated platform and down onto its far edge
GapPlan ==
    <<Seg(2, 17), Seg(0, 16), Seg(2, 23), Seg(0, 37), Seg(2, 19), Seg(1, 5), Seg(2, 27)>>

\* left with the wind, down to the ground far from the course
DriftPlan == <<Seg(1, 27), Seg(0, 57), Seg(1, 81)>>

\* the plans that fly the whole course, and the other long flights
Courses == {FlightPlan, RepeatPlan, GapPlan, DriftPlan}

Policies == HoldPlans \cup {RepeatPlan, HoverPlan, RightPlan, FastPlan, FlightPlan, ZigZagPlan}
\* the pilot's hop onto the next platform, at frames of 50 ms
HopPlan == <<Seg(2, 13), Seg(0, 16), Seg(1, 11)>>

Pilots == HoldPlans \cup {HoverPlan, RightPlan, ZigZagPlan, HopPlan}

\* the arrow keys the pilot holds for a control intent
Arrows(a) ==
    CASE a = 1 -> {"K_LEFT"}
      [] a = 2 -> {"K_RIGHT"}
      [] a = 3 -> {"K_LEFT", "K_RIGHT"}
      [] OTHER -> {}

\* the KEYDOWN events of the arrows newly held
Presses(want, held) ==
    (IF "K_LEFT" \in want \ held THEN <<"K_LEFT">> ELSE << >>)
    \o (IF "K_RIGHT" \in want \ held THEN <<"K_RIGHT">> ELSE << >>)

\* the key the pilot taps besides, once MaxIdle frames have passed outside
\* flight: SPACE to start or relaunch, R to retry
Taps ==
    IF idle < MaxIdle THEN {<< >>}
    ELSE IF state \in {STATE_START, STATE_LANDED} THEN {<<"K_SPACE">>}
    ELSE IF state = STATE_CRASHED /\ resets < MaxRetries THEN {<<"K_r">>}
    ELSE {<< >>}

\* what clock.tick(FPS) returns, in milliseconds
FrameTimes == {17, 80}

Done == ret.terminated \/ ret.truncated

\* the history of coasting after one more physics step that left the vehicle
\* with horizontal velocity vx
Coasting(c, coasted, vx) ==
    IF coasted THEN [c EXCEPT !.n = @ + 1] ELSE [n |-> 0, v0 |-> vx]

\* ----------------------------------------------------------------- actions
\* the generated platforms all drawn alike
Layouts == {[i \in 1..NUM_GENERATED |-> d] : d \in DrawChoices}

\* two moving platforms drawn as close as the generator allows, level with each
\* other, their phases such that the first is at the right end of its swing and
\* the second at the left end of its swing 179 steps after the reset
GapDraws ==
    <<[distance_x |-> 329, distance_y |-> -118,
       move_speed |-> PLATFORM_MOVE_SPEED, move_phase |-> 26392],
      [distance_x |-> PLATFORM_MIN_DISTANCE_X, distance_y |-> 0,
       move_speed |-> PLATFORM_MOVE_SPEED, move_phase |-> 12255]>>

GapLayout == [i \in 1..NUM_GENERATED |-> GapDraws[Min(i, Len(GapDraws))]]

\* static platforms 555 px apart, level with the start
DriftLayout ==
    [i \in 1..NUM_GENERATED |->
        [distance_x |-> 555, distance_y |-> 0, move_speed |-> 0, move_phase |-> 0]]

\* the layouts a reset is followed on: the caller of GapPlan on the close
\* pair, the caller of DriftPlan on the wide course
Drawn ==
    IF policy = GapPlan THEN {GapLayout}
    ELSE IF policy = DriftPlan THEN {DriftLayout}
    ELSE Layouts
GameLayouts == {[i \in 1..PRESPAWN |-> d] : d \in GameDrawChoices}

Game ==
    [state |-> state, score |-> score, current_platform_index |-> current_platform_index,
     platform_manager |-> platform_manager, camera |-> camera, player |-> player]

NoGame ==
    [state |-> STATE_START, score |-> 0, current_platform_index |-> 0,
     platform_manager |-> [platforms |-> << >>, next_index |-> 0],
     camera |-> [position |-> Vec(0, 0)], player |-> Player(0, 0)]

\* MarsGym.__init__
InitEnv(budget) ==
    /\ max_steps = budget
    /\ player_pos = Vec(0, 0)
    /\ player_vel = Vec(0, 0)
    /\ fuel = MaxFuelUnits
    /\ is_grounded = FALSE
    /\ wind_force = 0
    /\ wind_timer = 0
    /\ platforms = << >>
    /\ current_platform_idx = 0
    /\ target_platform_idx = 1
    /\ steps = 0
    /\ prev_distance = 0
    /\ total_time = 0
    /\ platform_landing_counts = << >>
    /\ last_landed_platform_idx = NoIndex
    /\ np_random = NoSeed
    /\ ret = NoReturn

\* Game.__init__, which ends in reset_game
InitGameVars(g) ==
    /\ state = g.state
    /\ score = g.score
    /\ current_platform_index = g.current_platform_index
    /\ platform_manager = g.platform_manager
    /\ camera = g.camera
    /\ player = g.player
    /\ pressed = {}
    /\ frame = NoFrame

InitHistory ==
    /\ raised = FALSE
    /\ overrun = 0
    /\ resets = 0
    /\ frames = 0
    /\ idle = 0
    /\ landings = [i \in 0..NUM_GENERATED |-> 0]
    /\ landings_before = [i \in 0..NUM_GENERATED |-> 0]
    /\ seeded_layout = << >>
    /\ coast = [n |-> 0, v0 |-> 0]

InitTrainer ==
    /\ host = "trainer"
    /\ \E budget \in {ShortBudget, DEFAULT_MAX_STEPS} : InitEnv(budget)
    /\ InitGameVars(NoGame)
    /\ InitHistory
    /\ \/ policy \in Policies /\ cap = StepCap
       \/ policy \in Courses /\ cap = LongCap
    /\ tick = 0

InitInteractive ==
    /\ host = "interactive"
    /\ InitEnv(DEFAULT_MAX_STEPS)
    /\ \E draws \in GameLayouts : InitGameVars(reset_game(draws))
    /\ InitHistory
    /\ policy \in Pilots
    /\ cap = StepCap
    /\ tick \in FrameTimes

Init == InitTrainer \/ InitInteractive

\* MarsGym.reset(seed): super().reset(seed=seed) seeds the environment's own
\* generator; _spawn_platforms draws from the global numpy one
Reset(seed, draws) ==
    LET ps == _spawn_platforms(draws)
        start == Vec(CenterX(ps[1]), ps[1].y)
    IN  /\ host = "trainer"
        /\ ~raised
        \* the caller that flies the whole course flies it once
        /\ resets < (IF cap = LongCap THEN 1 ELSE MaxResets)
        /\ platforms = << >> \/ Done
        /\ np_random' = IF seed = NoSeed THEN np_random ELSE seed
        /\ platforms' = ps
        /\ player_pos' = start
        /\ player_vel' = Vec(0, Vel(-50))
        /\ fuel' = MaxFuelUnits
        /\ is_grounded' = FALSE
        /\ current_platform_idx' = 0
        /\ target_platform_idx' = 1
        /\ steps' = 0
        /\ wind_force' = 0
        /\ wind_timer' = 0
        /\ prev_distance' = _get_distance_to_target(start, ps, 1)
        /\ platform_landing_counts' = << >>
        /\ ret' = [NoReturn EXCEPT !.call = "reset", !.seed = seed]
        /\ overrun' = 0
        /\ resets' = resets + 1
        /\ landings_before' = landings
        /\ landings' = [i \in 0..NUM_GENERATED |-> 0]
        /\ seeded_layout' =
              IF seed # NoSeed /\ seeded_layout = << >> THEN ps ELSE seeded_layout
        /\ coast' = [n |-> 0, v0 |-> 0]
        /\ UNCHANGED <<host, max_steps, total_time, last_landed_platform_idx,
                       raised, policy, cap, tick, frames, idle, gameVars>>

Step ==
    /\ host = "trainer"
    /\ ~raised
    /\ platforms # << >>
    /\ steps < cap
    /\ Done => overrun < MaxOverrun
    /\ \E w \in IF WindResampled(wind_timer) THEN WindChoices ELSE {wind_force} :
          LET n == Stepped(PolicyAction(policy, steps + 1), w)
          IN  /\ steps' = steps + 1
              /\ total_time' = total_time + DT
              /\ wind_timer' = WindTimer(wind_timer)
              /\ wind_force' = w
              /\ platforms' = n.platforms
              /\ player_pos' = n.player_pos
              /\ player_vel' = n.player_vel
              /\ fuel' = n.fuel
              /\ is_grounded' = n.is_grounded
              /\ current_platform_idx' = n.current_platform_idx
              /\ target_platform_idx' = n.target_platform_idx
              /\ last_landed_platform_idx' = n.last_landed_platform_idx
              /\ platform_landing_counts' = n.platform_landing_counts
              /\ prev_distance' = n.prev_distance
              /\ ret' = n.ret
              /\ landings' = IF n.ret.landed
                             THEN [landings EXCEPT ![n.ret.hit_idx] = @ + 1]
                             ELSE landings
              /\ coast' = Coasting(coast,
                                   ~n.ret.thrust_applied /\ w = 0 /\ ~n.ret.landed,
                                   n.player_vel.x)
    /\ overrun' = IF Done THEN overrun + 1 ELSE overrun
    /\ UNCHANGED <<host, max_steps, np_random, raised, policy, cap, resets, tick, frames,
                   idle, landings_before, seeded_layout, gameVars>>

\* MarsGym.step(action) before any reset: the platform list is empty, and
\* _get_target_platform's platforms[-1] raises IndexError after the wind
\* timer, the actuator and the integrator have run
StepUnreset ==
    /\ host = "trainer"
    /\ ~raised
    /\ platforms = << >>
    /\ LET act == _apply_action(player_vel, fuel, is_grounded, PolicyAction(policy, steps + 1), DT)
           phys == _update_physics(player_pos, act.vel, is_grounded, wind_force, DT)
       IN  /\ steps' = steps + 1
           /\ total_time' = total_time + DT
           /\ wind_timer' = WindTimer(wind_timer)
           /\ player_vel' = phys.vel
           /\ player_pos' = phys.pos
           /\ fuel' = act.fuel
           /\ raised' = TRUE
    /\ UNCHANGED <<host, max_steps, is_grounded, wind_force, platforms,
                   current_platform_idx, target_platform_idx, prev_distance,
                   platform_landing_counts, last_landed_platform_idx, np_random, ret,
                   gameVars, callerVars, historyVars>>

\* the end of a pass of Game.run: g is the game after handle_events, u after
\* update up to the camera, n after the spawn loop and the cleanup
FrameEnd(g, u, n, count, held, spawned) ==
    /\ state' = n.state
    /\ score' = n.score
    /\ current_platform_index' = n.current_platform_index
    /\ platform_manager' = n.platform_manager
    /\ camera' = n.camera
    /\ player' = n.player
    /\ pressed' = held
    /\ frame' = [u.frame EXCEPT
                    !.spawned = spawned,
                    !.culled = Len(u.g.platform_manager.platforms) + spawned
                               - Len(n.platform_manager.platforms)]
    /\ frames' = IF g.state = STATE_PLAYING THEN count + 1 ELSE count
    /\ idle' = IF g.state = STATE_PLAYING THEN 0 ELSE idle + 1
    /\ coast' = Coasting(coast,
                         /\ g.state = STATE_PLAYING
                         /\ ~u.frame.flown.is_thrusting
                         /\ u.g.state = STATE_PLAYING,
                         n.player.velocity.x)
    \* the spawn loop cannot end on an empty list
    /\ raised' = (g.state = STATE_PLAYING /\ u.g.platform_manager.platforms = << >>)

\* Game.update(dt) on the game handle_events left
FrameUpdate(g, u, count, held) ==
    IF g.state = STATE_PLAYING
    THEN \E draws \in [1..Needed(u.g) -> GameDrawChoices] :
            FrameEnd(g, u, Cleaned(Spawned(u.g, draws)), count, held, Needed(u.g))
    ELSE FrameEnd(g, u, u.g, count, held, 0)

FrameEvents(g, count, held, dt) ==
    /\ IF g.state = STATE_PLAYING THEN count < StepCap ELSE idle < MaxIdle
    /\ FrameUpdate(g, Played(g, held, dt), count, held)

\* one pass of Game.run: the clock, handle_events, update
Frame ==
    /\ host = "interactive"
    /\ ~raised
    /\ \E tap \in Taps :
         \E draws \in IF tap = <<"K_r">> THEN GameLayouts
                      ELSE {[i \in 1..PRESPAWN |-> CHOOSE d \in GameDrawChoices : TRUE]} :
            LET count == IF tap = <<"K_r">> THEN 0 ELSE frames
                held == Arrows(PolicyAction(policy, count + 1))
            IN  /\ FrameEvents(handle_events(Game, tap \o Presses(held, pressed), draws),
                               count, held, Min(tick, MAX_FRAME_MS) * MS)
                /\ resets' = IF tap = <<"K_r">> THEN resets + 1 ELSE resets
    /\ UNCHANGED <<host, envVars, policy, cap, overrun, tick, landings, landings_before,
                   seeded_layout>>

\* a trainer whose vehicle rests on the start platform: the state reset builds
\* (first platform's top centre, velocity 0, grounded) before its last two
\* lines launch the vehicle, or the one a caller sets on the attributes
InitRest ==
    /\ host = "trainer"
    /\ \E budget \in {ShortBudget, DEFAULT_MAX_STEPS}, draws \in Layouts, g \in BOOLEAN :
          LET ps == _spawn_platforms(draws)
              start == Vec(CenterX(ps[1]), ps[1].y)
          IN  /\ max_steps = budget
              /\ platforms = ps
              /\ player_pos = start
              /\ player_vel = Vec(0, 0)
              /\ is_grounded = g
              /\ prev_distance = _get_distance_to_target(start, ps, 1)
    /\ fuel = MaxFuelUnits
    /\ wind_force = 0
    /\ wind_timer = 0
    /\ current_platform_idx = 0
    /\ target_platform_idx = 1
    /\ steps = 0
    /\ total_time = 0
    /\ platform_landing_counts = << >>
    /\ last_landed_platform_idx = NoIndex
    /\ np_random = NoSeed
    /\ ret = [NoReturn EXCEPT !.call = "reset"]
    /\ InitGameVars(NoGame)
    /\ InitHistory
    /\ policy \in Policies
    /\ cap = StepCap
    /\ tick = 0

NextRest ==
    \/ \E seed \in Seeds, draws \in Drawn : Reset(seed, draws)
    \/ Step

SpecRest == InitRest /\ [][NextRest]_vars

\* the two classifiers on the same input: static platforms both generators
\* can draw, the vehicle's feet at whole pixels around one of them or below
\* it, its speed at and about the landing limits
StaticDraws ==
    { [distance_x |-> PLATFORM_MIN_DISTANCE_X, distance_y |-> PLATFORM_MIN_DISTANCE_Y,
       move_speed |-> 0, move_phase |-> 0],
      [distance_x |-> PLATFORM_MAX_DISTANCE_X - 1, distance_y |-> PLATFORM_MAX_DISTANCE_Y - 1,
       move_speed |-> 0, move_phase |-> 0] }

FeetX ==
    {-(PLAYER_WIDTH \div 2) - 1, -(PLAYER_WIDTH \div 2), -(PLAYER_WIDTH \div 2) + 1,
     -1, 0, PLATFORM_WIDTH \div 2, PLATFORM_WIDTH, PLATFORM_WIDTH + 1,
     PLATFORM_WIDTH + PLAYER_WIDTH \div 2 - 1, PLATFORM_WIDTH + PLAYER_WIDTH \div 2}

FeetY ==
    {-1, 0, 1, PLAYER_HEIGHT \div 2 - 1, PLAYER_HEIGHT \div 2, PLAYER_HEIGHT \div 2 + 1,
     PLAYER_HEIGHT + PLATFORM_HEIGHT - 1, PLAYER_HEIGHT + PLATFORM_HEIGHT,
     200, 201}

SpeedsAbout(limit) == {0, Vel(limit), Vel(limit) + 1, -Vel(limit), -Vel(limit) - 1}

InitClassify ==
    /\ host = "classifier"
    /\ \E d \in StaticDraws, k \in 1..(1 + PRESPAWN), dx \in FeetX, dy \in FeetY,
          vx \in SpeedsAbout(MAX_LANDING_SPEED_X), vy \in SpeedsAbout(MAX_LANDING_SPEED_Y) :
          LET ps == _spawn_platforms([i \in 1..PRESPAWN |-> d])
              pos == Vec(ps[k].x + Px(dx), ps[k].y + Px(dy))
          IN  /\ platforms = ps
              /\ player_pos = pos
              /\ player_vel = Vec(vx, vy)
              /\ platform_manager =
                    [platforms |-> [i \in 1..Len(ps) |-> GamePlatform(ps[i].x, ps[i].y, i - 1)],
                     next_index |-> Len(ps)]
              /\ player = [Player(pos.x, pos.y) EXCEPT !.velocity = Vec(vx, vy)]
    /\ state = STATE_PLAYING
    /\ score = 0
    /\ current_platform_index = 0
    /\ camera = [position |-> Vec(0, 0)]
    /\ pressed = {}
    /\ frame = NoFrame
    /\ max_steps = DEFAULT_MAX_STEPS
    /\ fuel = MaxFuelUnits
    /\ is_grounded = FALSE
    /\ wind_force = 0
    /\ wind_timer = 0
    /\ current_platform_idx = 0
    /\ target_platform_idx = 1
    /\ steps = 0
    /\ prev_distance = 0
    /\ total_time = 0
    /\ platform_landing_counts = << >>
    /\ last_landed_platform_idx = NoIndex
    /\ np_random = NoSeed
    /\ ret = NoReturn
    /\ InitHistory
    /\ policy = << >>
    /\ cap = StepCap
    /\ tick = 0

\* MarsGym._check_collisions, and Game.update from the collision loop to the
\* ground check, each on its own copy of the input
Classify ==
    /\ host = "classifier"
    /\ ret.call = "init"
    /\ LET col == _check_collisions(player_pos, player_vel, platforms)
           u == Observed(Judged(Struck([g |-> Game, before |-> player, held |-> {},
                                        dt |-> 0])))
       IN  /\ ret' = [NoReturn EXCEPT !.call = "classify", !.landed = col.landed,
                                      !.crashed = col.crashed, !.hit_idx = col.idx,
                                      !.hit_pos = player_pos, !.hit_vel = player_vel]
           /\ state' = u.g.state
           /\ score' = u.g.score
           /\ current_platform_index' = u.g.current_platform_index
           /\ player' = u.g.player
           /\ camera' = u.g.camera
           /\ frame' = [u.frame EXCEPT !.call = "classify"]
    /\ UNCHANGED <<host, raised, max_steps, player_pos, player_vel, fuel, is_grounded,
                   wind_force, wind_timer, platforms, current_platform_idx,
                   target_platform_idx, steps, prev_distance, total_time,
                   platform_landing_counts, last_landed_platform_idx, np_random,
                   platform_manager, pressed, callerVars, historyVars>>

NextClassify == Classify

SpecClassify == InitClassify /\ [][NextClassify]_vars

Next ==
    \/ \E seed \in Seeds, draws \in Drawn : Reset(seed, draws)
    \/ Step
    \/ StepUnreset
    \/ Frame

Spec == Init /\ [][Next]_vars

\* ------------------------------------------------------------------ claims
Trainer == host = "trainer"
Interactive == host = "interactive"
AfterStep == Trainer /\ ret.call = "step"
AfterReset == Trainer /\ ret.call = "reset"
AfterFlight == Interactive /\ frame.call = "update" /\ frame.state = STATE_PLAYING

\* the platforms (positions in the list) a trainer vehicle at pos strictly overlaps
Overlapped(pos, ps) ==
    {i \in 1..Len(ps) :
        /\ pos.x + Px(PLAYER_WIDTH) \div 2 > ps[i].x
        /\ pos.x - Px(PLAYER_WIDTH) \div 2 < ps[i].x + Px(PLATFORM_WIDTH)
        /\ pos.y > ps[i].y
        /\ pos.y - Px(PLAYER_HEIGHT) < ps[i].y + Px(PLATFORM_HEIGHT)}

\* the four conditions of a landing, for a trainer vehicle on platform p
TouchesDown(pos, vel, p) ==
    /\ 0 < pos.y - p.y
    /\ 2 * (pos.y - p.y) < Px(PLAYER_HEIGHT)
    /\ p.x <= pos.x
    /\ pos.x <= p.x + Px(PLATFORM_WIDTH)
    /\ Abs(vel.y) <= Vel(MAX_LANDING_SPEED_Y)
    /\ Abs(vel.x) <= Vel(MAX_LANDING_SPEED_X)

\* the same for the interactive host's integer rectangles, p in whole pixels
BoxOverlapped(r, ps) ==
    {i \in 1..Len(ps) :
        /\ r.right > ps[i].x \div PosScale
        /\ r.left < ps[i].x \div PosScale + PLATFORM_WIDTH
        /\ r.bottom > ps[i].y \div PosScale
        /\ r.top < ps[i].y \div PosScale + PLATFORM_HEIGHT}

BoxTouchesDown(r, vel, p) ==
    /\ 0 < r.bottom - p.y \div PosScale
    /\ 2 * (r.bottom - p.y \div PosScale) < PLAYER_HEIGHT
    /\ p.x \div PosScale <= r.centerx
    /\ r.centerx <= p.x \div PosScale + PLATFORM_WIDTH
    /\ Abs(vel.y) <= Vel(MAX_LANDING_SPEED_Y)
    /\ Abs(vel.x) <= Vel(MAX_LANDING_SPEED_X)

Least(S) == CHOOSE i \in S : \A j \in S : i <= j

C1_Trainer ==
    AfterStep =>
        LET hits == Overlapped(ret.hit_pos, platforms)
        IN  IF hits = {} THEN ret.hit_idx = NoIndex /\ ~ret.landed
            ELSE /\ ret.hit_idx = Least(hits) - 1
                 /\ ret.landed <=>
                        TouchesDown(ret.hit_pos, ret.hit_vel, platforms[Least(hits)])
                 /\ ret.crashed <=> ~ret.landed

C1_Interactive ==
    AfterFlight =>
        LET hits == BoxOverlapped(frame.rect, frame.platforms)
        IN  IF hits = {} THEN frame.hit = 0 /\ state # STATE_LANDED
            ELSE /\ frame.hit = Least(hits)
                 /\ state = STATE_LANDED <=>
                        BoxTouchesDown(frame.rect, frame.flown.velocity,
                                       frame.platforms[Least(hits)])
                 /\ state = STATE_CRASHED <=> state # STATE_LANDED

\* C1: in both hosts the first platform in list order whose box strictly
\* overlaps the vehicle box decides the outcome: Landed if and only if
\* 0 < bottom - top < PLAYER_HEIGHT/2, the centre lies within the platform's
\* span and both speed bounds hold (inclusive); Crashed otherwise.
C1_Classification == C1_Trainer /\ C1_Interactive

\* a trainer landing on a generated platform, with horizontal speed
C1_Witness ==
    /\ AfterStep
    /\ ret.landed
    /\ ret.hit_idx = 1
    /\ ret.hit_vel.x # 0
    /\ ret.hit_vel.y > 0

\* a collision from the top on a platform, only a speed bound violated
TooFastFromTop ==
    /\ AfterStep
    /\ ret.hit_idx # NoIndex
    /\ 0 < ret.hit_pos.y - platforms[ret.hit_idx + 1].y
    /\ 2 * (ret.hit_pos.y - platforms[ret.hit_idx + 1].y) < Px(PLAYER_HEIGHT)
    /\ platforms[ret.hit_idx + 1].x <= ret.hit_pos.x
    /\ ret.hit_pos.x <= platforms[ret.hit_idx + 1].x + Px(PLATFORM_WIDTH)
    /\ \/ Abs(ret.hit_vel.y) > Vel(MAX_LANDING_SPEED_Y)
       \/ Abs(ret.hit_vel.x) > Vel(MAX_LANDING_SPEED_X)

\* the vehicle centre strictly inside the span of the platform the step
\* measured its rewards to, its feet less than 20 px from that platform's top
NearTarget ==
    LET target == _get_target_platform(platforms, ret.target_idx)
    IN  /\ target.x < ret.hit_pos.x
        /\ ret.hit_pos.x < target.x + Px(PLATFORM_WIDTH)
        /\ Abs(ret.hit_pos.y - target.y) < Px(20)

\* C2 as stated: a from-top collision whose only fault is a speed bound is
\* Crashed with REWARD_CRASH_PLATFORM, never REWARD_CRASH_GROUND.
C2_SmallerPenalty ==
    TooFastFromTop => ret.crashed /\ ret.r_crash = REWARD_CRASH_PLATFORM

\* C2 as the code has it: such a collision is Crashed, and its penalty is
\* REWARD_CRASH_PLATFORM exactly when the vehicle centre is strictly inside the
\* target platform's span with its feet less than 20 px from the target's
\* top; on any other platform it is REWARD_CRASH_GROUND.
C2_PenaltyByTarget ==
    TooFastFromTop =>
        /\ ret.crashed
        /\ ret.r_crash = IF NearTarget THEN REWARD_CRASH_PLATFORM
                         ELSE REWARD_CRASH_GROUND

\* too fast onto the target platform: the smaller penalty
C2_Witness ==
    /\ TooFastFromTop
    /\ ret.hit_idx = ret.target_idx
    /\ ret.r_crash = REWARD_CRASH_PLATFORM

\* C3: fuel stays within [0, MAX_FUEL] in every reachable state of either host.
C3_FuelInRange ==
    /\ 0 <= fuel /\ fuel <= MaxFuelUnits
    /\ 0 <= player.fuel /\ player.fuel <= MaxFuelUnits

\* the last burn asked for more than was left, and the tank reads zero
C3_Witness ==
    /\ AfterFlight
    /\ frame.flown.is_thrusting
    /\ 0 < frame.before.fuel
    /\ frame.before.fuel < Drain(frame.dt)
    /\ player.fuel = 0

\* C4 as stated: a reset with a given seed always produces the layout the
\* first reset with that seed produced, whatever was drawn before.
C4_SeededLayout ==
    (AfterReset /\ ret.seed # NoSeed) => platforms = seeded_layout

\* C5 as stated: after reset every piece of per-episode state has the value
\* it has after reset on a fresh instance.
C5_ResetComplete ==
    AfterReset =>
        /\ player_pos = Vec(Px(SCREEN_WIDTH) \div 2, Px(GROUND_LEVEL))
        /\ player_vel = Vec(0, Vel(-50))
        /\ fuel = MaxFuelUnits
        /\ ~is_grounded
        /\ wind_force = 0
        /\ wind_timer = 0
        /\ steps = 0
        /\ total_time = 0
        /\ prev_distance = _get_distance_to_target(player_pos, platforms, 1)
        /\ current_platform_idx = 0
        /\ target_platform_idx = 1
        /\ last_landed_platform_idx = NoIndex
        /\ platform_landing_counts = << >>

\* C6: the landing-count map is empty right after a reset, and map[i] is the
\* number of Landed steps on platform i since the last reset.
C6_LandingCounts ==
    Trainer =>
        /\ AfterReset => platform_landing_counts = << >>
        /\ \A i \in 0..NUM_GENERATED :
              landings[i] = IF i \in DOMAIN platform_landing_counts
                            THEN platform_landing_counts[i] ELSE 0
        /\ DOMAIN platform_landing_counts \subseteq 0..NUM_GENERATED

\* two landings on platform 0 before the reset, one after: the count is 1
C6_Witness ==
    /\ Trainer
    /\ landings_before[0] = 2
    /\ 0 \in DOMAIN platform_landing_counts
    /\ platform_landing_counts[0] = 1

\* C7 as stated: out of bounds sets terminated, and truncated is set if and
\* only if the step count has reached max_steps.
C7_FlagSemantics ==
    AfterStep =>
        /\ ret.oob => ret.terminated
        /\ ret.truncated <=> steps >= max_steps

\* C8 as stated: a step made after a step returned terminated leaves position,
\* velocity, fuel, score and landing counts alone and does not land.
C8_TerminatedAbsorbing ==
    [][(AfterStep /\ ret.terminated /\ steps' = steps + 1) =>
          /\ player_pos' = player_pos
          /\ player_vel' = player_vel
          /\ fuel' = fuel
          /\ current_platform_idx' = current_platform_idx
          /\ platform_landing_counts' = platform_landing_counts
          /\ ~ret'.landed]_vars

\* the trainer's action for the arrows held
Intent(held) ==
    IF held = {"K_LEFT", "K_RIGHT"} THEN 3
    ELSE IF held = {"K_LEFT"} THEN 1
    ELSE IF held = {"K_RIGHT"} THEN 2
    ELSE 0

\* C9: for an airborne vehicle, one Player.update and one _apply_action
\* followed by _update_physics with zero wind give the same velocity,
\* position and fuel from the same velocity, position, fuel, dt and intent.
C9_HostEquivalence ==
    (AfterFlight /\ ~frame.before.is_grounded) =>
        LET act == _apply_action(frame.before.velocity, frame.before.fuel, FALSE,
                                 Intent(frame.held), frame.dt)
            phys == _update_physics(frame.before.position, act.vel, FALSE, 0, frame.dt)
        IN  /\ frame.flown.velocity = phys.vel
            /\ frame.flown.position = phys.pos
            /\ frame.flown.fuel = act.fuel

\* a thrusting update of a vehicle already moving the other way
C9_Witness ==
    /\ AfterFlight
    /\ ~frame.before.is_grounded
    /\ frame.flown.is_thrusting
    /\ frame.held = {"K_LEFT"}
    /\ frame.before.velocity.x > 0
    /\ frame.flown.fuel < frame.before.fuel

\* C10: consecutive platforms keep the minimum spacing, in the trainer by
\* their anchors and in the interactive host through spawns and cleanups.
C10_Spacing ==
    /\ \A i \in 1..(Len(platforms) - 1) :
          platforms[i + 1].initial_x >=
              platforms[i].initial_x + Px(platforms[i].width)
                  + Px(PLATFORM_MIN_DISTANCE_X)
    /\ \A i \in 1..(Len(platform_manager.platforms) - 1) :
          platform_manager.platforms[i + 1].x >=
              platform_manager.platforms[i].x + Px(platform_manager.platforms[i].width)
                  + Px(PLATFORM_MIN_DISTANCE_X)

\* the interactive host after a cleanup dropped the first platform and the
\* spawn loop added one behind the rest
C10_Witness ==
    /\ Interactive
    /\ platform_manager.platforms # << >>
    /\ platform_manager.platforms[1].index > 0
    /\ frame.spawned > 0

\* every platform is where its oscillation allows: a moving one within
\* PLATFORM_MOVE_RANGE of initial_x, a static one at initial_x
C11_InRange ==
    Trainer =>
        /\ platforms # << >> => platforms[1].move_speed = 0
        /\ \A i \in 1..Len(platforms) :
              IF platforms[i].move_speed # 0
              THEN /\ platforms[i].x >= platforms[i].initial_x - Px(PLATFORM_MOVE_RANGE)
                   /\ platforms[i].x <= platforms[i].initial_x + Px(PLATFORM_MOVE_RANGE)
              ELSE platforms[i].x = platforms[i].initial_x

\* a step keeps the list's length and every platform's y, width and initial_x
C11_Frozen ==
    (Trainer /\ ret'.call = "step") =>
        /\ Len(platforms') = Len(platforms)
        /\ \A i \in 1..Len(platforms) :
              /\ platforms'[i].y = platforms[i].y
              /\ platforms'[i].width = platforms[i].width
              /\ platforms'[i].height = platforms[i].height
              /\ platforms'[i].initial_x = platforms[i].initial_x
              /\ platforms'[i].move_speed = platforms[i].move_speed

\* C11: after any number of _update_platforms calls an oscillating platform's
\* x lies in [initial_x - PLATFORM_MOVE_RANGE, initial_x + PLATFORM_MOVE_RANGE],
\* a static platform (platform 0 among them) has x = initial_x, and no
\* platform's y, width or initial_x changes after generation.
C11_Oscillation == []C11_InRange /\ [][C11_Frozen]_vars

\* a moving platform that has swung more than a third of the range away from
\* the end of its swing it started at
C11_Witness ==
    /\ AfterStep
    /\ \E i \in 1..Len(platforms) :
          /\ platforms[i].move_speed # 0
          /\ platforms[i].x > platforms[i].initial_x - Px(PLATFORM_MOVE_RANGE) + Px(50)

\* v * DRAG^n, one float product after another
RECURSIVE DragPow(_, _)
DragPow(v, n) ==
    IF n = 0 THEN v
    ELSE DragPow(IF v >= 0 THEN (v * DRAG) \div 100 ELSE -((-v * DRAG) \div 100), n - 1)

\* C12: drag is per step, not per elapsed time: after N physics steps in a row
\* with no thrust, no wind and no landing, the horizontal velocity is
\* v0 * DRAG^N, in the trainer (dt = 1/60 s) and in the interactive host at
\* every frame time.
C12_DragPerStep ==
    /\ (AfterStep /\ ~raised) => player_vel.x = DragPow(coast.v0, coast.n)
    /\ (Interactive /\ ~raised) => player.velocity.x = DragPow(coast.v0, coast.n)

\* three frames of 17 ms coasted at a horizontal speed that drag has reduced
C12_Witness ==
    /\ AfterFlight
    /\ frame.dt = 17 * MS
    /\ coast.n >= 3
    /\ coast.v0 # 0
    /\ Abs(player.velocity.x) < Abs(coast.v0)

\* the wind in force on a reset trainer: none before the first boundary, the
\* timer in step with the step count, every value within the bounds, and the
\* value a step leaves is the one its own integrator used
C13_InForce ==
    (Trainer /\ ~raised /\ platforms # << >>) =>
        /\ wind_timer = steps % WIND_CHANGE_INTERVAL
        /\ steps < WIND_CHANGE_INTERVAL => wind_force = 0
        /\ wind_force >= -MAX_WIND_FORCE
        /\ wind_force <= MAX_WIND_FORCE
        /\ AfterStep => ret.wind = wind_force

\* a step whose index is not a multiple of the interval keeps the wind
C13_Persists ==
    (Trainer /\ ret'.call = "step" /\ steps' % WIND_CHANGE_INTERVAL # 0) =>
        wind_force' = wind_force

\* C13: after reset the wind force is 0 and changes only on steps whose index
\* since the reset is a positive multiple of WIND_CHANGE_INTERVAL; each new
\* value lies in [-MAX_WIND_FORCE, MAX_WIND_FORCE], is in force in that same
\* step and stays until the next boundary.
C13_WindSchedule == []C13_InForce /\ [][C13_Persists]_vars

\* the step after the first boundary, the wind drawn at the boundary in force
C13_Witness ==
    /\ AfterStep
    /\ steps = WIND_CHANGE_INTERVAL + 1
    /\ wind_force # 0
    /\ ret.wind = wind_force

\* the velocity a full thrust of the action adds in one trainer step
FullThrust(vel, action) ==
    CASE action = 1 -> Vec(vel.x - Vel(THRUST_HORIZONTAL) \div 60, vel.y - Vel(THRUST_POWER) \div 60)
      [] action = 2 -> Vec(vel.x + Vel(THRUST_HORIZONTAL) \div 60, vel.y - Vel(THRUST_POWER) \div 60)
      [] action = 3 -> Vec(vel.x, vel.y - Vel(THRUST_POWER + THRUST_POWER \div 2) \div 60)
      [] OTHER -> vel

\* the last burn and the empty tank in the trainer
C14_Trainer ==
    AfterStep =>
        /\ (/\ ret.action \in {1, 2, 3}
            /\ ~ret.grounded_before
            /\ 0 < ret.fuel_before
            /\ 60 * ret.fuel_before < FUEL_DRAIN_RATE * FuelScale) =>
               /\ ret.thrust_applied
               /\ ret.act_vel = FullThrust(ret.vel_before, ret.action)
               /\ fuel = IF ret.landed THEN MaxFuelUnits ELSE 0
        /\ ret.fuel_before = 0 =>
               /\ ~ret.thrust_applied
               /\ ret.act_vel = ret.vel_before
               /\ fuel = IF ret.landed THEN MaxFuelUnits ELSE 0
        /\ ret.landed => fuel = MaxFuelUnits

\* the same in the interactive host, whose frame time varies
C14_Interactive ==
    AfterFlight =>
        /\ (/\ frame.held # {}
            /\ ~frame.before.is_grounded
            /\ 0 < frame.before.fuel
            /\ TimeScale * frame.before.fuel < FUEL_DRAIN_RATE * FuelScale * frame.dt) =>
               /\ frame.flown.is_thrusting
               /\ frame.flown.fuel = 0
               /\ frame.flown.velocity.y < frame.before.velocity.y
        /\ frame.before.fuel = 0 =>
               /\ ~frame.flown.is_thrusting
               /\ frame.flown.fuel = 0
               /\ frame.flown.velocity.y =
                     Min(frame.before.velocity.y + (GRAVITY * frame.dt * VelScale) \div TimeScale,
                         Vel(TERMINAL_VELOCITY))
        /\ state = STATE_LANDED => player.fuel = MaxFuelUnits

\* C14: when an airborne vehicle has 0 < fuel < FUEL_DRAIN_RATE * dt and a
\* thrust action is requested, the full thrust is still applied in that step
\* and fuel becomes exactly 0; in every later step no thrust is applied and the
\* fuel stays 0 until a step is classified Landed, which restores MAX_FUEL.
C14_FuelExhaustion == C14_Trainer /\ C14_Interactive

\* a trainer step that asked for thrust on the tank the last burn had emptied
C14_Witness ==
    /\ AfterStep
    /\ ret.action \in {1, 2, 3}
    /\ ret.fuel_before = 0
    /\ ~ret.thrust_applied
    /\ fuel = 0

\* the vehicle stood on the start platform when the step began
RestedOnStart ==
    /\ AfterStep
    /\ ret.pos_before = Vec(CenterX(platforms[1]), platforms[1].y)
    /\ ret.vel_before = Vec(0, 0)

\* C15: from a trainer state where the vehicle is at platform 0's top centre
\* with velocity (0, 0), one step with action 0 is classified Landed, not
\* Crashed and not without event, and its reward includes REWARD_LANDING and
\* the soft-landing bonus of 10.
C15_RestLands ==
    (RestedOnStart /\ ret.action = 0) =>
        /\ ret.landed
        /\ ~ret.crashed
        /\ ret.hit_idx = 0
        /\ ret.r_landing = REWARD_LANDING
        /\ ret.r_soft = 10 * RewardScale
        /\ ret.r_crash = 0
        /\ Reward(ret) = ret.r_time + ret.r_shaping + ret.r_pipe
                         + REWARD_LANDING + 10 * RewardScale

\* the first step of a resting vehicle, no action asked
C15_Witness ==
    /\ RestedOnStart
    /\ ret.action = 0
    /\ steps = 1
    /\ ret.landed
    /\ landings[0] = 1

\* C16 as stated: on a Landed step the bonus of 10 is in the reward if and
\* only if the speed at touchdown, the magnitude of the velocity the step was
\* classified Landed with, is below 10.
C16_SoftBonus ==
    (AfterStep /\ ret.landed) =>
        (ret.r_soft = 10 * RewardScale <=> Speed2(ret.hit_vel) < Vel(10) * Vel(10))

\* C17: within one episode the k-th landing on the same platform index
\* subtracts nothing from the reward for k = 1 and k = 2 and 50 * (k - 1) for
\* k >= 3, k counting the landings on that index alone; a step that does not
\* land subtracts nothing.
C17_RepeatPenalty ==
    AfterStep =>
        IF ret.landed
        THEN LET k == landings[ret.hit_idx]
             IN  /\ k >= 1
                 /\ k <= 2 => ret.r_repeat = 0
                 /\ k >= 3 => ret.r_repeat = -(50 * RewardScale * (k - 1))
        ELSE ret.r_repeat = 0

\* the fourth landing on platform 0 costs 150
C17_Witness ==
    /\ AfterStep
    /\ ret.landed
    /\ ret.hit_idx = 0
    /\ landings[0] = 4
    /\ ret.r_repeat = -(150 * RewardScale)

\* C18: every Landed step of the trainer either finds the target index at or
\* beyond the number of platforms, sets terminated and adds the completion
\* bonus of 200, or ends with the vehicle airborne at vy = -50; so every step
\* of an episode that has not terminated starts airborne, and completion
\* happens only by landing on the last generated platform.
C18_RelaunchOrComplete ==
    /\ AfterReset => ~is_grounded /\ player_vel.y = Vel(-50)
    /\ AfterStep =>
          /\ ret.landed =>
                IF target_platform_idx >= Len(platforms)
                THEN /\ ret.terminated
                     /\ ret.r_complete = 200 * RewardScale
                ELSE /\ ~ret.terminated
                     /\ ret.r_complete = 0
                     /\ ~is_grounded
                     /\ player_vel.y = Vel(-50)
          /\ ~ret.landed => ret.r_complete = 0
          /\ ~ret.terminated_before =>
                /\ ~ret.grounded_before
                /\ ret.r_complete # 0 => ret.landed /\ ret.hit_idx = Len(platforms) - 1

\* a course flown to its end: relaunched from the start platform, then landed
\* on the last generated platform
C18_Witness ==
    /\ AfterStep
    /\ ret.landed
    /\ ret.terminated
    /\ ret.hit_idx = NUM_GENERATED
    /\ ret.r_complete = 200 * RewardScale
    /\ is_grounded
    /\ landings[0] = 1

Ahead == {i \in 1..Len(platform_manager.platforms) :
             platform_manager.platforms[i].index > current_platform_index}

\* C20: after every playing-state update of the interactive host (the spawn
\* loop, then the cleanup) the platform list holds at least SPAWN_AHEAD - 1 = 4
\* platforms whose index is greater than current_platform_index.
C20_Lookahead ==
    (AfterFlight /\ ~raised) => Cardinality(Ahead) >= SPAWN_AHEAD - 1

\* a flight past platform 1 without a landing: the cleanup of this update
\* dropped a platform, platforms 0 and 1 are gone, and exactly 4 are ahead
C20_Witness ==
    /\ AfterFlight
    /\ ~raised
    /\ frame.culled > 0
    /\ current_platform_index = 0
    /\ platform_manager.platforms[1].index > 1
    /\ Cardinality(Ahead) = SPAWN_AHEAD - 1

\* C21 as stated: in every state reachable through construction, reset and
\* step the target lookup returns a platform: no call fails in it, and a target
\* index at or beyond the end of the list yields the last generated platform.
C21_TargetLookup ==
    Trainer =>
        /\ ~raised
        /\ (platforms # << >> /\ target_platform_idx >= Len(platforms)) =>
              _get_target_platform(platforms, target_platform_idx)
                  = platforms[Len(platforms)]

\* the first platform of the list the trainer's vehicle overlaps decides alone
C22_Trainer ==
    AfterStep =>
        LET hits == Overlapped(ret.hit_pos, platforms)
        IN  IF hits # {}
            THEN LET first == platforms[Least(hits)]
                 IN  /\ ret.hit_idx = Least(hits) - 1
                     /\ ret.landed <=> TouchesDown(ret.hit_pos, ret.hit_vel, first)
                     /\ ret.crashed <=> ~TouchesDown(ret.hit_pos, ret.hit_vel, first)
                     /\ ret.landed =>
                           /\ player_pos.y = first.y
                           /\ last_landed_platform_idx = Least(hits) - 1
            ELSE /\ ~ret.landed
                 /\ ret.crashed <=> ret.hit_pos.y > Px(GROUND_LEVEL + 200)

\* the same in the interactive host
C22_Interactive ==
    AfterFlight =>
        LET hits == BoxOverlapped(frame.rect, frame.platforms)
        IN  IF hits # {}
            THEN LET first == frame.platforms[Least(hits)]
                 IN  /\ frame.hit = Least(hits)
                     /\ state = STATE_LANDED <=>
                           BoxTouchesDown(frame.rect, frame.flown.velocity, first)
                     /\ state = STATE_CRASHED <=>
                           ~BoxTouchesDown(frame.rect, frame.flown.velocity, first)
                     /\ state = STATE_LANDED => player.position.y = first.y
            ELSE /\ state # STATE_LANDED
                 /\ state = STATE_CRASHED <=>
                       frame.flown.position.y > Px(GROUND_LEVEL + 200)

\* C22: when the vehicle box overlaps more than one platform in a step, the
\* outcome (Landed or Crashed, and the platform landed on) is that of the
\* overlapping platform that comes first in list order alone; the ground crash
\* (y > GROUND_LEVEL + 200) decides only when no platform overlaps.
C22_FirstMatchWins == C22_Trainer /\ C22_Interactive

\* the vehicle overlaps two platforms: it lands on the first, from the top and
\* slowly enough, though it hits the second from the side
C22_Witness ==
    /\ AfterStep
    /\ Cardinality(Overlapped(ret.hit_pos, platforms)) = 2
    /\ ret.landed
    /\ ret.hit_idx = 1
    /\ ~TouchesDown(ret.hit_pos, ret.hit_vel, platforms[3])

\* the target is the platform after the highest one reached
C23_TargetFollows ==
    Trainer => target_platform_idx = current_platform_idx + 1

\* a step moves the score only up, and only by landing on a higher platform
C23_Advance ==
    (Trainer /\ ret'.call = "step") =>
        /\ current_platform_idx' >= current_platform_idx
        /\ current_platform_idx' # current_platform_idx =>
              /\ ret'.landed
              /\ ret'.hit_idx > current_platform_idx
              /\ current_platform_idx' = ret'.hit_idx
        /\ (ret'.landed /\ ret'.hit_idx > current_platform_idx) =>
              current_platform_idx' = ret'.hit_idx
        /\ ~ret'.landed => current_platform_idx' = current_platform_idx

\* C23: within an episode of the trainer current_platform_idx (info.score)
\* never decreases, changes only in a Landed step on a platform whose index is
\* strictly greater than it, and then becomes that index; and
\* target_platform_idx = current_platform_idx + 1 in every reachable state.
C23_ProgressIndices == []C23_TargetFollows /\ [][C23_Advance]_vars

\* the second advance of an episode: landed on platform 2 after platform 1,
\* a landing back on the start platform having left the score alone
C23_Witness ==
    /\ AfterStep
    /\ ret.landed
    /\ ret.hit_idx = 2
    /\ current_platform_idx = 2
    /\ target_platform_idx = 3
    /\ landings[0] = 1
    /\ landings[1] = 1

\* the KEYDOWN events the pass of Game.run about to be made will handle
FrameKeys ==
    LET tap == CHOOSE t \in Taps : TRUE
        count == IF tap = <<"K_r">> THEN 0 ELSE frames
    IN  tap \o Presses(Arrows(PolicyAction(policy, count + 1)), pressed)

KeyIn(keys, wanted) == \E i \in 1..Len(keys) : keys[i] \in wanted

\* grounded exactly in START and LANDED, between passes and between
\* handle_events and update
C24_Grounded ==
    Interactive =>
        /\ player.is_grounded <=> state \in {STATE_START, STATE_LANDED}
        /\ frame.call = "update" =>
              (frame.before.is_grounded <=> frame.state \in {STATE_START, STATE_LANDED})

\* one pass of Game.run: handle_events takes state to frame'.state, update
\* takes frame'.state to state'
C24_Edges ==
    (Interactive /\ frame'.call = "update") =>
        /\ frame'.state # state =>
              /\ frame'.state = STATE_PLAYING
              /\ \/ state = STATE_START /\ FrameKeys # << >>
                 \/ state = STATE_LANDED
                       /\ KeyIn(FrameKeys, {"K_LEFT", "K_RIGHT", "K_SPACE"})
                 \/ /\ state = STATE_CRASHED
                    /\ KeyIn(FrameKeys, {"K_r"})
                    /\ frame'.before.velocity = Vec(0, 0)
                    /\ frame'.before.fuel = MaxFuelUnits
                    /\ frame'.before.position =
                          Vec(Px(SCREEN_WIDTH) \div 2, Px(GROUND_LEVEL))
                    /\ Len(frame'.platforms) = 1 + PRESPAWN
                    /\ frame'.platforms[1].index = 0
        /\ (state = STATE_START /\ FrameKeys # << >>) => frame'.state = STATE_PLAYING
        /\ (state = STATE_LANDED /\ KeyIn(FrameKeys, {"K_LEFT", "K_RIGHT", "K_SPACE"})) =>
              frame'.state = STATE_PLAYING
        /\ (state = STATE_CRASHED /\ KeyIn(FrameKeys, {"K_r"})) =>
              frame'.state = STATE_PLAYING
        /\ state' # frame'.state =>
              /\ frame'.state = STATE_PLAYING
              /\ state' \in {STATE_LANDED, STATE_CRASHED}
              /\ state' = STATE_LANDED <=>
                    (frame'.hit # 0 /\ frame'.from_top /\ frame'.safe)

\* C24: the interactive host's state changes only along START -> PLAYING (any
\* key press), PLAYING -> LANDED (safe landing), LANDED -> PLAYING (LEFT, RIGHT
\* or SPACE pressed), PLAYING -> CRASHED (crash) and CRASHED -> PLAYING (R,
\* through a full reset_game); and the vehicle's grounded flag is true exactly
\* when the state is START or LANDED.
C24_FlightStates == []C24_Grounded /\ [][C24_Edges]_vars

\* a landing after a crash and a retry: every edge of the machine but
\* LANDED -> PLAYING has been taken
C24_Witness ==
    /\ Interactive
    /\ resets = 1
    /\ state = STATE_LANDED
    /\ player.is_grounded
    /\ frame.state = STATE_PLAYING
    /\ frame.hit # 0

\* C25: an update of the interactive host while the state is START, LANDED or
\* CRASHED leaves the vehicle's position, velocity and fuel, the platform list,
\* the score and current_platform_index unchanged; only the camera advances,
\* and not in CRASHED.
C25_PausedPhysics ==
    [][(/\ Interactive
        /\ frame'.call = "update"
        /\ frame'.state \in {STATE_START, STATE_LANDED, STATE_CRASHED}) =>
          /\ player'.position = player.position
          /\ player'.velocity = player.velocity
          /\ player'.fuel = player.fuel
          /\ player' = player
          /\ platform_manager' = platform_manager
          /\ score' = score
          /\ current_platform_index' = current_platform_index
          /\ state' = state
          /\ frame'.state = STATE_CRASHED => camera' = camera]_vars

\* an update in LANDED on the second platform, the camera still on its way
C25_Witness ==
    /\ Interactive
    /\ frame.call = "update"
    /\ frame.state = STATE_LANDED
    /\ score = 1
    /\ player.fuel = MaxFuelUnits
    /\ camera.position.x # player.position.x - Px(SCREEN_WIDTH) \div 2
                               + Px(CAMERA_LOOK_AHEAD_X)

\* a step at or beyond the budget reports the episode over
C26_Budget ==
    (AfterStep /\ steps >= max_steps) => ret.truncated /\ Done

\* every step counts once
C26_Counts ==
    (Trainer /\ ret'.call = "step") => steps' = steps + 1

\* C26: a trainer episode reports terminated or truncated no later than its
\* max_steps-th step after reset: every step whose step count is >= max_steps
\* returns truncated = True, and the step count grows by exactly 1 per step
\* from the 0 reset leaves.
C26_BoundedEpisodes ==
    /\ [](AfterReset => steps = 0)
    /\ []C26_Budget
    /\ [][C26_Counts]_vars

\* the budget's last step, nothing else ending the episode
C26_Witness ==
    /\ AfterStep
    /\ steps = max_steps
    /\ ret.truncated
    /\ ~ret.terminated
    /\ ~ret.oob
    /\ ~ret.landed

\* C27 as stated: a trainer step adds at most one of the terminal adjustments
\* to the reward: the penalty of a crash, the penalty of leaving the bounds,
\* the landing bonus.
C27_ExclusiveAdjustments ==
    AfterStep =>
        /\ ~(ret.r_crash # 0 /\ ret.r_oob # 0)
        /\ ~(ret.r_crash # 0 /\ ret.r_landing # 0)
        /\ ~(ret.r_landing # 0 /\ ret.r_oob # 0)
        /\ ret.r_crash + ret.r_oob >= REWARD_CRASH_GROUND

AfterClassify == host = "classifier" /\ ret.call = "classify"

\* C28: for the same feet position and velocity of the vehicle and the same
\* list of static platforms, all at whole pixels, the interactive host's
\* classification (check_collision on the rectangles, check_landing_safe, the
\* first colliding platform, then the ground check) and the trainer's
\* _check_collisions give the same outcome among Landed, Crashed and no event,
\* and on Landed the same platform.
C28_ClassifierEquivalence ==
    AfterClassify =>
        /\ ret.landed <=> state = STATE_LANDED
        /\ ret.crashed <=> state = STATE_CRASHED
        /\ (~ret.landed /\ ~ret.crashed) <=> state = STATE_PLAYING
        /\ ret.hit_idx = IF frame.hit = 0 THEN NoIndex ELSE frame.platform.index
        /\ ret.landed =>
              /\ frame.platform.index = ret.hit_idx
              /\ player.position.y = platforms[ret.hit_idx + 1].y

\* both hosts land the vehicle on the last platform of the list, its centre
\* on the platform's edge and both speeds at their limits
C28_Witness ==
    /\ AfterClassify
    /\ ret.landed
    /\ state = STATE_LANDED
    /\ ret.hit_idx = PRESPAWN
    /\ ret.hit_pos.x = platforms[ret.hit_idx + 1].x + Px(PLATFORM_WIDTH)
    /\ ret.hit_vel = Vec(-Vel(MAX_LANDING_SPEED_X), Vel(MAX_LANDING_SPEED_Y))

\* C29: in the trainer the fuel after a step is at most the fuel before it,
\* unless the step is classified Landed, and then it is exactly MAX_FUEL; no
\* operation but a Landed step and reset increases the fuel.
C29_FuelMonotone ==
    [][Trainer =>
          /\ (ret'.call = "step" /\ ret'.landed) => fuel' = MaxFuelUnits
          /\ (ret'.call = "step" /\ ~ret'.landed) => fuel' <= fuel
          /\ ret'.call = "init" => fuel' <= fuel
          /\ ret'.call = "reset" => fuel' = MaxFuelUnits
          /\ fuel' > fuel => (ret'.call = "reset" \/ ret'.landed)]_vars

\* a landing on the next platform with part of the fuel burnt: the tank is full
C29_Witness ==
    /\ AfterStep
    /\ ret.landed
    /\ ret.hit_idx = 1
    /\ ret.fuel_before < MaxFuelUnits
    /\ ret.act_fuel = ret.fuel_before
    /\ fuel = MaxFuelUnits

\* C30: the flags of a trainer step are consistent: landed and crashed are
\* never both true, and terminated is true if and only if crashed is true or
\* the step landed with target_platform_idx at or beyond the number of
\* platforms.
C30_OutcomeFlags ==
    AfterStep =>
        /\ ~(ret.landed /\ ret.crashed)
        /\ ret.terminated <=>
              (ret.crashed \/ (ret.landed /\ target_platform_idx >= Len(platforms)))

\* the landing that completes the course: terminated without a crash
C30_Witness ==
    /\ AfterStep
    /\ ret.landed
    /\ ~ret.crashed
    /\ ret.terminated
    /\ ~ret.truncated
    /\ target_platform_idx = Len(platforms)

====
